---- MODULE Spec2Model ----
(***************************************************************************)
(* Koinos example token (assembly/Token.ts): a fungible-token ledger with  *)
(* balances, owner->spender allowances and a supply counter, whose         *)
(* mutating entry points (approve, transfer, mint, burn) are gated by      *)
(* check_authority.                                                        *)
(*                                                                         *)
(* Every entry point runs as one transaction of the host: the action of an *)
(* entry point takes the ledger from its state before the call to its      *)
(* state after it (a failed System.require reverts every write of the      *)
(* call) and leaves in `last` the call and its outcome and in `prev` the   *)
(* ledger as it was before the call.  commitTransaction ends the           *)
(* transaction; the next call starts from there.                           *)
(***************************************************************************)
EXTENDS Integers, Sequences, FiniteSets, TLC

VARIABLES supply, balances, allowances, events, last, prev, history

vars == <<supply, balances, allowances, events, last, prev, history>>

(***************************************************************************)
(* Bounds of the model.                                                    *)
(***************************************************************************)
\* u64 arithmetic is done modulo U64Mod (2^64 in the program).
U64Mod == 4
\* Width of an address in bytes (25 in the program).
AddrLen == 2
\* Most signatures a transaction carries.
MaxSigners == 2
\* Most pairs of accounts between which allowance records are stored (the
\* records of a pair are those of its two directions).
MaxAllowancePairs == 1
\* Most entries of the event list in SpecLog.
MaxEvents == 2

\* Constants.max_supply: static configuration, below the largest u64.
max_supply == 2

U64 == 0 .. (U64Mod - 1)
U64_MAX_VALUE == U64Mod - 1

(***************************************************************************)
(* Addresses: fixed-width byte strings.                                    *)
(***************************************************************************)
Addr(n) == [i \in 1 .. AddrLen |-> IF i = n THEN 1 ELSE 0]

CONTRACT_ID == Addr(1)
MOCK_ACCT1 == Addr(2)
MOCK_ACCT2 == Addr(3)
\* caller_data.caller of a call that no contract made
CONTRACT_EMPTY == << >>

Accounts == {CONTRACT_ID, MOCK_ACCT1, MOCK_ACCT2}
Callers == Accounts \cup {CONTRACT_EMPTY}
SignerSets == {s \in SUBSET Accounts : Cardinality(s) <= MaxSigners}

\* The 2*AddrLen-byte key of the allowances space: owner at offset 0,
\* spender at offset AddrLen.
AllowanceKey(owner, spender) ==
    [i \in 1 .. (2 * AddrLen) |->
        IF i <= AddrLen THEN owner[i] ELSE spender[i - AddrLen]]

(***************************************************************************)
(* Error messages of the System.require calls.                             *)
(***************************************************************************)
ERR_APPROVE_AUTH == "approve operation not authorized"
ERR_TRANSFER_AUTH == "from has not authorized transfer"
ERR_MINT_AUTH == "owner has not authorized mint"
ERR_BALANCE == "account 'from' has insufficient balance"
ERR_SUPPLY == "mint would overflow supply"
OK == "ok"

(***************************************************************************)
(* Queries.                                                                *)
(***************************************************************************)
total_supply == supply

balance_of(owner) == balances[owner]

\* Faulty variant: reads the record of (spender, owner).
allowance_SwappedKey(owner, spender) ==
    LET key == AllowanceKey(spender, owner)
    IN  IF key \notin DOMAIN allowances THEN 0 ELSE allowances[key]

allowance(owner, spender) ==
    LET key == AllowanceKey(owner, spender)
    IN  IF key \notin DOMAIN allowances THEN 0 ELSE allowances[key]

(***************************************************************************)
(* Storage.Map.put on the allowances space.                                *)
(***************************************************************************)
AllowancesPut(store, key, v) ==
    [k \in (DOMAIN store) \cup {key} |-> IF k = key THEN v ELSE store[k]]

\* The pairs of accounts that have a record in an allowances store.
AllowancePairs(store) ==
    {{q[1], q[2]} : q \in {p \in Accounts \X Accounts :
                              AllowanceKey(p[1], p[2]) \in DOMAIN store}}

(***************************************************************************)
(* Faulty variants of check_authority, used to test the properties below.  *)
(***************************************************************************)
\* Faulty variant: the lowered allowance is written under the key of
\* (calling contract, account).
check_authority_SpendSwappedKey(account, acceptAllowances, amount, caller, signers) ==
    LET key == AllowanceKey(account, caller)
        denied == [authorized |-> FALSE, via |-> "none", allowances |-> allowances]
    IN  IF Len(caller) > 0
        THEN IF /\ acceptAllowances
                /\ key \in DOMAIN allowances
                /\ allowances[key] >= amount
             THEN [authorized |-> TRUE, via |-> "allowance",
                   allowances |->
                       AllowancesPut(allowances, AllowanceKey(caller, account),
                                     (allowances[key] - amount) % U64Mod)]
             ELSE IF account = caller
                  THEN [authorized |-> TRUE, via |-> "caller",
                        allowances |-> allowances]
                  ELSE denied
        ELSE IF \E s \in signers : account = s
             THEN [authorized |-> TRUE, via |-> "signer",
                   allowances |-> allowances]
             ELSE denied

\* Faulty variant: a record holding 0 is treated like an absent one.
check_authority_ZeroIsAbsent(account, acceptAllowances, amount, caller, signers) ==
    LET key == AllowanceKey(account, caller)
        denied == [authorized |-> FALSE, via |-> "none", allowances |-> allowances]
    IN  IF Len(caller) > 0
        THEN IF /\ acceptAllowances
                /\ key \in DOMAIN allowances
                /\ allowances[key] > 0
                /\ allowances[key] >= amount
             THEN [authorized |-> TRUE, via |-> "allowance",
                   allowances |->
                       AllowancesPut(allowances, key,
                                     (allowances[key] - amount) % U64Mod)]
             ELSE IF account = caller
                  THEN [authorized |-> TRUE, via |-> "caller",
                        allowances |-> allowances]
                  ELSE denied
        ELSE IF \E s \in signers : account = s
             THEN [authorized |-> TRUE, via |-> "signer",
                   allowances |-> allowances]
             ELSE denied

\* Faulty variant: the calling contract is compared with the account before
\* the allowance is tried.
check_authority_SelfFirst(account, acceptAllowances, amount, caller, signers) ==
    LET key == AllowanceKey(account, caller)
        denied == [authorized |-> FALSE, via |-> "none", allowances |-> allowances]
    IN  IF Len(caller) > 0
        THEN IF account = caller
             THEN [authorized |-> TRUE, via |-> "caller",
                   allowances |-> allowances]
             ELSE IF /\ acceptAllowances
                     /\ key \in DOMAIN allowances
                     /\ allowances[key] >= amount
                  THEN [authorized |-> TRUE, via |-> "allowance",
                        allowances |->
                            AllowancesPut(allowances, key,
                                          (allowances[key] - amount) % U64Mod)]
                  ELSE denied
        ELSE IF \E s \in signers : account = s
             THEN [authorized |-> TRUE, via |-> "signer",
                   allowances |-> allowances]
             ELSE denied

\* Faulty variant: any nonzero allowance authorizes, and the spending stops
\* at 0.
check_authority_Saturating(account, acceptAllowances, amount, caller, signers) ==
    LET key == AllowanceKey(account, caller)
        denied == [authorized |-> FALSE, via |-> "none", allowances |-> allowances]
    IN  IF Len(caller) > 0
        THEN IF /\ acceptAllowances
                /\ key \in DOMAIN allowances
                /\ (allowances[key] >= amount \/ allowances[key] > 0)
             THEN [authorized |-> TRUE, via |-> "allowance",
                   allowances |->
                       AllowancesPut(allowances, key,
                                     IF allowances[key] >= amount
                                     THEN allowances[key] - amount
                                     ELSE 0)]
             ELSE IF account = caller
                  THEN [authorized |-> TRUE, via |-> "caller",
                        allowances |-> allowances]
                  ELSE denied
        ELSE IF \E s \in signers : account = s
             THEN [authorized |-> TRUE, via |-> "signer",
                   allowances |-> allowances]
             ELSE denied

\* Falls back to the signatures when a calling contract is not authorized.
check_authority_SignerFallback(account, acceptAllowances, amount, caller, signers) ==
    LET key == AllowanceKey(account, caller)
        denied == [authorized |-> FALSE, via |-> "none", allowances |-> allowances]
        signed == IF \E s \in signers : account = s
                  THEN [authorized |-> TRUE, via |-> "signer",
                        allowances |-> allowances]
                  ELSE denied
    IN  IF Len(caller) > 0
        THEN IF /\ acceptAllowances
                /\ key \in DOMAIN allowances
                /\ allowances[key] >= amount
             THEN [authorized |-> TRUE, via |-> "allowance",
                   allowances |->
                       AllowancesPut(allowances, key,
                                     (allowances[key] - amount) % U64Mod)]
             ELSE IF account = caller
                  THEN [authorized |-> TRUE, via |-> "caller",
                        allowances |-> allowances]
                  ELSE signed
        ELSE signed

\* Spends a stored allowance without comparing it with the amount.
check_authority_AnyAllowance(account, acceptAllowances, amount, caller, signers) ==
    LET key == AllowanceKey(account, caller)
        denied == [authorized |-> FALSE, via |-> "none", allowances |-> allowances]
    IN  IF Len(caller) > 0
        THEN IF /\ acceptAllowances
                /\ key \in DOMAIN allowances
             THEN [authorized |-> TRUE, via |-> "allowance",
                   allowances |->
                       AllowancesPut(allowances, key,
                                     (allowances[key] - amount) % U64Mod)]
             ELSE IF account = caller
                  THEN [authorized |-> TRUE, via |-> "caller",
                        allowances |-> allowances]
                  ELSE denied
        ELSE IF \E s \in signers : account = s
             THEN [authorized |-> TRUE, via |-> "signer",
                   allowances |-> allowances]
             ELSE denied

\* Compares the allowance with the amount off by one.
check_authority_OffByOne(account, acceptAllowances, amount, caller, signers) ==
    LET key == AllowanceKey(account, caller)
        denied == [authorized |-> FALSE, via |-> "none", allowances |-> allowances]
    IN  IF Len(caller) > 0
        THEN IF /\ acceptAllowances
                /\ key \in DOMAIN allowances
                /\ allowances[key] + 1 >= amount
             THEN [authorized |-> TRUE, via |-> "allowance",
                   allowances |->
                       AllowancesPut(allowances, key,
                                     (allowances[key] - amount) % U64Mod)]
             ELSE IF account = caller
                  THEN [authorized |-> TRUE, via |-> "caller",
                        allowances |-> allowances]
                  ELSE denied
        ELSE IF \E s \in signers : account = s
             THEN [authorized |-> TRUE, via |-> "signer",
                   allowances |-> allowances]
             ELSE denied

\* Authorizes by allowance without writing the decrement back.
check_authority_NoSpend(account, acceptAllowances, amount, caller, signers) ==
    LET key == AllowanceKey(account, caller)
        denied == [authorized |-> FALSE, via |-> "none", allowances |-> allowances]
    IN  IF Len(caller) > 0
        THEN IF /\ acceptAllowances
                /\ key \in DOMAIN allowances
                /\ allowances[key] >= amount
             THEN [authorized |-> TRUE, via |-> "allowance",
                   allowances |-> allowances]
             ELSE IF account = caller
                  THEN [authorized |-> TRUE, via |-> "caller",
                        allowances |-> allowances]
                  ELSE denied
        ELSE IF \E s \in signers : account = s
             THEN [authorized |-> TRUE, via |-> "signer",
                   allowances |-> allowances]
             ELSE denied

\* The loop over the signers starts at the second signature.
check_authority_SkipFirstSigner(account, acceptAllowances, amount, caller, signers) ==
    LET key == AllowanceKey(account, caller)
        denied == [authorized |-> FALSE, via |-> "none", allowances |-> allowances]
    IN  IF Len(caller) > 0
        THEN IF /\ acceptAllowances
                /\ key \in DOMAIN allowances
                /\ allowances[key] >= amount
             THEN [authorized |-> TRUE, via |-> "allowance",
                   allowances |->
                       AllowancesPut(allowances, key,
                                     (allowances[key] - amount) % U64Mod)]
             ELSE IF account = caller
                  THEN [authorized |-> TRUE, via |-> "caller",
                        allowances |-> allowances]
                  ELSE denied
        ELSE IF /\ Cardinality(signers) > 1
                /\ \E s \in signers : account = s
             THEN [authorized |-> TRUE, via |-> "signer",
                   allowances |-> allowances]
             ELSE denied

\* On the direct path, spends the allowance a signer holds from the account.
check_authority_SignerAllowance(account, acceptAllowances, amount, caller, signers) ==
    LET key == AllowanceKey(account, caller)
        denied == [authorized |-> FALSE, via |-> "none", allowances |-> allowances]
        holders == {s \in signers :
                       /\ AllowanceKey(account, s) \in DOMAIN allowances
                       /\ allowances[AllowanceKey(account, s)] >= amount}
    IN  IF Len(caller) > 0
        THEN IF /\ acceptAllowances
                /\ key \in DOMAIN allowances
                /\ allowances[key] >= amount
             THEN [authorized |-> TRUE, via |-> "allowance",
                   allowances |->
                       AllowancesPut(allowances, key,
                                     (allowances[key] - amount) % U64Mod)]
             ELSE IF account = caller
                  THEN [authorized |-> TRUE, via |-> "caller",
                        allowances |-> allowances]
                  ELSE denied
        ELSE IF \E s \in signers : account = s
             THEN [authorized |-> TRUE, via |-> "signer",
                   allowances |-> allowances]
             ELSE IF acceptAllowances /\ holders # {}
                  THEN LET s == CHOOSE h \in holders : TRUE
                           k == AllowanceKey(account, s)
                       IN  [authorized |-> TRUE, via |-> "allowance",
                            allowances |->
                                AllowancesPut(allowances, k,
                                              (allowances[k] - amount) % U64Mod)]
                  ELSE denied

(***************************************************************************)
(* check_authority: the result and the allowances space as it leaves it.   *)
(* via names the return statement taken.                                   *)
(***************************************************************************)
check_authority(account, acceptAllowances, amount, caller, signers) ==
    LET key == AllowanceKey(account, caller)
        denied == [authorized |-> FALSE, via |-> "none", allowances |-> allowances]
    IN  IF Len(caller) > 0
        THEN IF /\ acceptAllowances
                /\ key \in DOMAIN allowances
             /\ allowances[key] >= amount
             THEN [authorized |-> TRUE, via |-> "allowance",
                   allowances |->
                       AllowancesPut(allowances, key,
                                     (allowances[key] - amount) % U64Mod)]
             ELSE IF account = caller
                  THEN [authorized |-> TRUE, via |-> "caller",
                        allowances |-> allowances]
                  ELSE denied
        ELSE IF \E s \in signers : account = s
             THEN [authorized |-> TRUE, via |-> "signer",
                   allowances |-> allowances]
             ELSE denied

(***************************************************************************)
(* The ledger as a record, and the record of a call.                       *)
(***************************************************************************)
Ledger == [supply |-> supply, balances |-> balances, allowances |-> allowances]

NoCall == [op |-> "none"]

Call(op, args, caller, signers, result, via, puts) ==
    [op |-> op, args |-> args, caller |-> caller, signers |-> signers,
     result |-> result, via |-> via, puts |-> puts]

\* A failed System.require: the host reverts the transaction, so no write
\* and no event of the call stays.
Revert(call) ==
    /\ UNCHANGED <<supply, balances, allowances, events, history>>
    /\ last' = call
    /\ prev' = Ledger

Idle == last.op = "none"

(***************************************************************************)
(* History of the grants, kept only in SpecSpend (history.on): for every   *)
(* pair of an owner and another account, the value of the last successful  *)
(* approve(owner, spender, .) and the total value of the successful        *)
(* transfers from the owner made since then by the spender as the calling  *)
(* contract.  The program neither reads nor writes it.                     *)
(***************************************************************************)
NoGrant == [granted |-> 0, spent |-> 0]

GrantOf(key) ==
    IF key \in DOMAIN history.grants THEN history.grants[key] ELSE NoGrant

TrackApprove(args) ==
    IF history.on /\ args.owner # args.spender
    THEN [history EXCEPT
            !.grants = AllowancesPut(@, AllowanceKey(args.owner, args.spender),
                                     [granted |-> args.value, spent |-> 0])]
    ELSE history

TrackTransfer(args, caller) ==
    IF history.on /\ Len(caller) > 0 /\ caller # args.from
    THEN LET key == AllowanceKey(args.from, caller)
         IN  [history EXCEPT
                !.grants = AllowancesPut(@, key,
                               [GrantOf(key) EXCEPT !.spent = @ + args.value])]
    ELSE history

(***************************************************************************)
(* _approve, _transfer, _mint: the outcome of the internal methods.        *)
(***************************************************************************)
\* Faulty variant: the record is written under the key of (spender, owner).
_approve_SwappedKey(args) ==
    [allowances |->
         AllowancesPut(allowances, AllowanceKey(args.spender, args.owner),
                       args.value),
     event |-> [name |-> "token.approve",
                data |-> args,
                impacted |-> <<args.spender, args.owner>>]]

\* Faulty variant: the value is added to the stored allowance.
_approve_Additive(args) ==
    [allowances |->
         AllowancesPut(allowances, AllowanceKey(args.owner, args.spender),
                       (allowance(args.owner, args.spender) + args.value)
                           % U64Mod),
     event |-> [name |-> "token.approve",
                data |-> args,
                impacted |-> <<args.spender, args.owner>>]]

_approve(args) ==
    [allowances |->
         AllowancesPut(allowances, AllowanceKey(args.owner, args.spender),
                       args.value),
     event |-> [name |-> "token.approve",
                data |-> args,
                impacted |-> <<args.spender, args.owner>>]]

\* Faulty variant: the balance of `from` is debited without the >= check.
_transfer_Unchecked(args) ==
    LET debited == [balances EXCEPT
                       ![args.from] = (@ - args.value) % U64Mod]
        credited == [debited EXCEPT
                       ![args.to] = (@ + args.value) % U64Mod]
    IN  [ok |-> TRUE, balances |-> credited,
         event |-> [name |-> "token.transfer",
                    data |-> args,
                    impacted |-> <<args.to, args.from>>]]

\* Faulty variant: the impacted accounts are listed as [from, to].
_transfer_ImpactedSwapped(args) ==
    IF ~(balances[args.from] >= args.value)
    THEN [ok |-> FALSE, balances |-> balances]
    ELSE LET debited == [balances EXCEPT
                            ![args.from] = (@ - args.value) % U64Mod]
             credited == [debited EXCEPT
                            ![args.to] = (@ + args.value) % U64Mod]
         IN  [ok |-> TRUE, balances |-> credited,
              event |-> [name |-> "token.transfer",
                         data |-> args,
                         impacted |-> <<args.from, args.to>>]]

\* Faulty variant: the lowered balance of `from` is never written back.
_transfer_NoDebit(args) ==
    IF ~(balances[args.from] >= args.value)
    THEN [ok |-> FALSE, balances |-> balances]
    ELSE LET credited == [balances EXCEPT
                            ![args.to] = (@ + args.value) % U64Mod]
         IN  [ok |-> TRUE, balances |-> credited,
              event |-> [name |-> "token.transfer",
                         data |-> args,
                         impacted |-> <<args.to, args.from>>]]

\* Faulty variant: credits `to` from the balance read before the debit.
_transfer_StaleTo(args) ==
    IF ~(balances[args.from] >= args.value)
    THEN [ok |-> FALSE, balances |-> balances]
    ELSE LET debited == [balances EXCEPT
                            ![args.from] = (@ - args.value) % U64Mod]
             credited == [debited EXCEPT
                            ![args.to] = (balances[args.to] + args.value) % U64Mod]
         IN  [ok |-> TRUE, balances |-> credited,
              event |-> [name |-> "token.transfer",
                         data |-> args,
                         impacted |-> <<args.to, args.from>>]]

_transfer(args) ==
    IF ~(balances[args.from] >= args.value)
    THEN [ok |-> FALSE, balances |-> balances]
    ELSE LET debited == [balances EXCEPT
                            ![args.from] = (@ - args.value) % U64Mod]
             credited == [debited EXCEPT
                            ![args.to] = (@ + args.value) % U64Mod]
         IN  [ok |-> TRUE, balances |-> credited,
              event |-> [name |-> "token.transfer",
                         data |-> args,
                         impacted |-> <<args.to, args.from>>]]

\* Faulty variant: the raised supply is never written back.
_mint_NoSupply(args) ==
    IF \/ args.value > max_supply
       \/ ~(supply <= max_supply - args.value)
    THEN [ok |-> FALSE, balances |-> balances, supply |-> supply]
    ELSE [ok |-> TRUE,
          balances |-> [balances EXCEPT
                          ![args.to] = (@ + args.value) % U64Mod],
          supply |-> supply,
          event |-> [name |-> "token.mint",
                     data |-> args,
                     impacted |-> <<args.to>>]]

\* Faulty variant: max_supply - value is computed with a wrapping
\* subtraction instead of SafeMath.sub.
_mint_WrappingSub(args) ==
    IF ~(supply <= (max_supply - args.value) % U64Mod)
    THEN [ok |-> FALSE, balances |-> balances, supply |-> supply]
    ELSE [ok |-> TRUE,
          balances |-> [balances EXCEPT
                          ![args.to] = (@ + args.value) % U64Mod],
          supply |-> (supply + args.value) % U64Mod,
          event |-> [name |-> "token.mint",
                     data |-> args,
                     impacted |-> <<args.to>>]]

\* Faulty variant: compares the supply before the mint with the maximum.
_mint_NoCap(args) ==
    IF ~(supply <= max_supply)
    THEN [ok |-> FALSE, balances |-> balances, supply |-> supply]
    ELSE [ok |-> TRUE,
          balances |-> [balances EXCEPT
                          ![args.to] = (@ + args.value) % U64Mod],
          supply |-> (supply + args.value) % U64Mod,
          event |-> [name |-> "token.mint",
                     data |-> args,
                     impacted |-> <<args.to>>]]

\* SafeMath.sub(max_supply, value) reverts when value > max_supply.
_mint(args) ==
    IF \/ args.value > max_supply
       \/ ~(supply <= max_supply - args.value)
    THEN [ok |-> FALSE, balances |-> balances, supply |-> supply]
    ELSE [ok |-> TRUE,
          balances |-> [balances EXCEPT
                          ![args.to] = (@ + args.value) % U64Mod],
          supply |-> (supply + args.value) % U64Mod,
          event |-> [name |-> "token.mint",
                     data |-> args,
                     impacted |-> <<args.to>>]]

\* _burn is not called by any entry point.
_burn(args) ==
    IF ~(balances[args.from] >= args.value)
    THEN [ok |-> FALSE, balances |-> balances, supply |-> supply]
    ELSE [ok |-> TRUE,
          balances |-> [balances EXCEPT
                          ![args.from] = (@ - args.value) % U64Mod],
          supply |-> (supply - args.value) % U64Mod,
          event |-> [name |-> "token.burn",
                     data |-> args,
                     impacted |-> <<args.from>>]]

(***************************************************************************)
(* Entry points.                                                           *)
(***************************************************************************)
\* Faulty variant: approve accepts the allowances of the owner.
approve_AcceptAllowances(args, caller, signers) ==
    LET auth == check_authority(args.owner, TRUE, 0, caller, signers)
        res == _approve(args)
    IN  IF ~auth.authorized
        THEN Revert(Call("approve", args, caller, signers,
                         ERR_APPROVE_AUTH, auth.via, << >>))
        ELSE /\ Cardinality(AllowancePairs(res.allowances)) <= MaxAllowancePairs
             /\ allowances' = res.allowances
             /\ events' = Append(events, res.event)
             /\ UNCHANGED <<supply, balances>>
             /\ history' = TrackApprove(args)
             /\ last' = Call("approve", args, caller, signers, OK,
                             auth.via, <<"allowances">>)
             /\ prev' = Ledger

approve(args, caller, signers) ==
    LET auth == check_authority(args.owner, FALSE, 0, caller, signers)
        res == _approve(args)
    IN  IF ~auth.authorized
        THEN Revert(Call("approve", args, caller, signers,
                         ERR_APPROVE_AUTH, auth.via, << >>))
        ELSE /\ Cardinality(AllowancePairs(res.allowances)) <= MaxAllowancePairs
             /\ allowances' = res.allowances
             /\ events' = Append(events, res.event)
             /\ UNCHANGED <<supply, balances>>
             /\ history' = TrackApprove(args)
             /\ last' = Call("approve", args, caller, signers, OK,
                             auth.via, <<"allowances">>)
             /\ prev' = Ledger

\* Faulty variant: a transfer with from = to is turned down.
transfer_RejectSelf(args, caller, signers) ==
    LET auth == check_authority(args.from, TRUE, args.value, caller, signers)
        authPuts == IF auth.via = "allowance" THEN <<"allowances">> ELSE << >>
        res == _transfer(args)
    IN  IF args.from = args.to
        THEN Revert(Call("transfer", args, caller, signers,
                         "cannot transfer to self", "none", << >>))
        ELSE IF ~auth.authorized
        THEN Revert(Call("transfer", args, caller, signers,
                         ERR_TRANSFER_AUTH, auth.via, << >>))
        ELSE IF ~res.ok
        THEN Revert(Call("transfer", args, caller, signers,
                         ERR_BALANCE, auth.via, authPuts))
        ELSE /\ allowances' = auth.allowances
             /\ balances' = res.balances
             /\ events' = Append(events, res.event)
             /\ UNCHANGED supply
             /\ history' = TrackTransfer(args, caller)
             /\ last' = Call("transfer", args, caller, signers, OK,
                             auth.via,
                             authPuts \o <<"balances", "balances">>)
             /\ prev' = Ledger

\* Faulty variant: a failed balance check returns without reverting, so the
\* allowance write of check_authority stays.
transfer_NoRevert(args, caller, signers) ==
    LET auth == check_authority(args.from, TRUE, args.value, caller, signers)
        authPuts == IF auth.via = "allowance" THEN <<"allowances">> ELSE << >>
        res == _transfer(args)
    IN  IF ~auth.authorized
        THEN Revert(Call("transfer", args, caller, signers,
                         ERR_TRANSFER_AUTH, auth.via, << >>))
        ELSE IF ~res.ok
        THEN /\ allowances' = auth.allowances
             /\ UNCHANGED <<supply, balances, events, history>>
             /\ last' = Call("transfer", args, caller, signers,
                             ERR_BALANCE, auth.via, authPuts)
             /\ prev' = Ledger
        ELSE /\ allowances' = auth.allowances
             /\ balances' = res.balances
             /\ events' = Append(events, res.event)
             /\ UNCHANGED supply
             /\ history' = TrackTransfer(args, caller)
             /\ last' = Call("transfer", args, caller, signers, OK,
                             auth.via,
                             authPuts \o <<"balances", "balances">>)
             /\ prev' = Ledger

\* Faulty variant: the balance is checked before the authority.
transfer_BalanceFirst(args, caller, signers) ==
    LET auth == check_authority(args.from, TRUE, args.value, caller, signers)
        authPuts == IF auth.via = "allowance" THEN <<"allowances">> ELSE << >>
        res == _transfer(args)
    IN  IF ~res.ok
        THEN Revert(Call("transfer", args, caller, signers,
                         ERR_BALANCE, "none", << >>))
        ELSE IF ~auth.authorized
        THEN Revert(Call("transfer", args, caller, signers,
                         ERR_TRANSFER_AUTH, auth.via, << >>))
        ELSE /\ allowances' = auth.allowances
             /\ balances' = res.balances
             /\ events' = Append(events, res.event)
             /\ UNCHANGED supply
             /\ history' = TrackTransfer(args, caller)
             /\ last' = Call("transfer", args, caller, signers, OK,
                             auth.via,
                             authPuts \o <<"balances", "balances">>)
             /\ prev' = Ledger

transfer(args, caller, signers) ==
    LET auth == check_authority(args.from, TRUE, args.value, caller, signers)
        authPuts == IF auth.via = "allowance" THEN <<"allowances">> ELSE << >>
        res == _transfer(args)
    IN  IF ~auth.authorized
        THEN Revert(Call("transfer", args, caller, signers,
                         ERR_TRANSFER_AUTH, auth.via, << >>))
        ELSE IF ~res.ok
        THEN Revert(Call("transfer", args, caller, signers,
                         ERR_BALANCE, auth.via, authPuts))
        ELSE /\ allowances' = auth.allowances
             /\ balances' = res.balances
             /\ events' = Append(events, res.event)
             /\ UNCHANGED supply
             /\ history' = TrackTransfer(args, caller)
             /\ last' = Call("transfer", args, caller, signers, OK,
                             auth.via,
                             authPuts \o <<"balances", "balances">>)
             /\ prev' = Ledger

\* Faulty variant: the balance of `to` is written before the supply check.
mint_CreditFirst(args, caller, signers) ==
    LET auth == check_authority(CONTRACT_ID, FALSE, 0, caller, signers)
        res == _mint(args)
    IN  IF ~auth.authorized
        THEN Revert(Call("mint", args, caller, signers,
                         ERR_MINT_AUTH, auth.via, << >>))
        ELSE IF ~res.ok
        THEN Revert(Call("mint", args, caller, signers,
                         ERR_SUPPLY, auth.via, <<"balances">>))
        ELSE /\ balances' = res.balances
             /\ supply' = res.supply
             /\ events' = Append(events, res.event)
             /\ UNCHANGED <<allowances, history>>
             /\ last' = Call("mint", args, caller, signers, OK,
                             auth.via, <<"balances", "supply">>)
             /\ prev' = Ledger

\* Faulty variant: asks for the authority of the receiving account.
mint_AuthorityOfTo(args, caller, signers) ==
    LET auth == check_authority(args.to, FALSE, 0, caller, signers)
        res == _mint(args)
    IN  IF ~auth.authorized
        THEN Revert(Call("mint", args, caller, signers,
                         ERR_MINT_AUTH, auth.via, << >>))
        ELSE IF ~res.ok
        THEN Revert(Call("mint", args, caller, signers,
                         ERR_SUPPLY, auth.via, << >>))
        ELSE /\ balances' = res.balances
             /\ supply' = res.supply
             /\ events' = Append(events, res.event)
             /\ UNCHANGED <<allowances, history>>
             /\ last' = Call("mint", args, caller, signers, OK,
                             auth.via, <<"balances", "supply">>)
             /\ prev' = Ledger

mint(args, caller, signers) ==
    LET auth == check_authority(CONTRACT_ID, FALSE, 0, caller, signers)
        res == _mint(args)
    IN  IF ~auth.authorized
        THEN Revert(Call("mint", args, caller, signers,
                         ERR_MINT_AUTH, auth.via, << >>))
        ELSE IF ~res.ok
        THEN Revert(Call("mint", args, caller, signers,
                         ERR_SUPPLY, auth.via, << >>))
        ELSE /\ balances' = res.balances
             /\ supply' = res.supply
             /\ events' = Append(events, res.event)
             /\ UNCHANGED <<allowances, history>>
             /\ last' = Call("mint", args, caller, signers, OK,
                             auth.via, <<"balances", "supply">>)
             /\ prev' = Ledger

\* Faulty variant: burn runs _burn without asking for authority.
burn_Unchecked(args, caller, signers) ==
    LET res == _burn(args)
    IN  IF ~res.ok
        THEN Revert(Call("burn", args, caller, signers,
                         ERR_BALANCE, "none", << >>))
        ELSE /\ balances' = res.balances
             /\ supply' = res.supply
             /\ events' = Append(events, res.event)
             /\ UNCHANGED <<allowances, history>>
             /\ last' = Call("burn", args, caller, signers, OK,
                             "none", <<"balances", "supply">>)
             /\ prev' = Ledger

\* Faulty variant: the body of burn with its commented-out lines restored.
burn_Enabled(args, caller, signers) ==
    LET auth == check_authority(CONTRACT_ID, FALSE, 0, caller, signers)
        res == _burn(args)
    IN  IF ~auth.authorized
        THEN Revert(Call("burn", args, caller, signers,
                         ERR_MINT_AUTH, auth.via, << >>))
        ELSE IF ~res.ok
        THEN Revert(Call("burn", args, caller, signers,
                         ERR_BALANCE, auth.via, << >>))
        ELSE /\ balances' = res.balances
             /\ supply' = res.supply
             /\ events' = Append(events, res.event)
             /\ UNCHANGED <<allowances, history>>
             /\ last' = Call("burn", args, caller, signers, OK,
                             auth.via, <<"balances", "supply">>)
             /\ prev' = Ledger

burn(args, caller, signers) ==
    /\ UNCHANGED <<supply, balances, allowances, events, history>>
    /\ last' = Call("burn", args, caller, signers, OK, "none", << >>)
    /\ prev' = Ledger

\* A query returns `value`: it reads the store and neither asks
\* check_authority nor writes nor emits.
Answer(op, args, caller, signers, value) ==
    /\ UNCHANGED <<supply, balances, allowances, events, history>>
    /\ last' = [op |-> op, args |-> args, caller |-> caller,
                signers |-> signers, result |-> OK, via |-> "none",
                puts |-> << >>, value |-> value]
    /\ prev' = Ledger

\* The host closes the transaction: the receipt (call and events) is handed
\* out and the next transaction starts with an empty one.
commitTransaction ==
    /\ ~Idle
    /\ last' = NoCall
    /\ events' = << >>
    /\ prev' = Ledger
    /\ UNCHANGED <<supply, balances, allowances, history>>

(***************************************************************************)
(* Specification.                                                          *)
(***************************************************************************)
ApproveArgs == [owner : Accounts, spender : Accounts, value : U64]
TransferArgs == [from : Accounts, to : Accounts, value : U64]
MintArgs == [to : Accounts, value : U64]
BurnArgs == [from : Accounts, value : U64]
TotalSupplyArgs == {<< >>}
BalanceOfArgs == [owner : Accounts]
AllowanceArgs == [owner : Accounts, spender : Accounts]

Init ==
    /\ supply = 0
    /\ balances = [a \in Accounts |-> 0]
    /\ allowances = [k \in {} |-> 0]
    /\ events = << >>
    /\ last = NoCall
    /\ prev = [supply |-> 0, balances |-> [a \in Accounts |-> 0],
               allowances |-> [k \in {} |-> 0]]
    /\ history = [on |-> FALSE, grants |-> [k \in {} |-> NoGrant]]

InitSpend ==
    /\ supply = 0
    /\ balances = [a \in Accounts |-> 0]
    /\ allowances = [k \in {} |-> 0]
    /\ events = << >>
    /\ last = NoCall
    /\ prev = [supply |-> 0, balances |-> [a \in Accounts |-> 0],
               allowances |-> [k \in {} |-> 0]]
    /\ history = [on |-> TRUE, grants |-> [k \in {} |-> NoGrant]]

Approve == Idle /\ \E args \in ApproveArgs, caller \in Callers, signers \in SignerSets :
               approve(args, caller, signers)

Transfer == Idle /\ \E args \in TransferArgs, caller \in Callers, signers \in SignerSets :
                transfer(args, caller, signers)

Mint == Idle /\ \E args \in MintArgs, caller \in Callers, signers \in SignerSets :
            mint(args, caller, signers)

Burn == Idle /\ \E args \in BurnArgs, caller \in Callers, signers \in SignerSets :
            burn(args, caller, signers)

TotalSupply ==
    Idle /\ \E args \in TotalSupplyArgs, caller \in Callers, signers \in SignerSets :
                Answer("total_supply", args, caller, signers, total_supply)

BalanceOf ==
    Idle /\ \E args \in BalanceOfArgs, caller \in Callers, signers \in SignerSets :
                Answer("balance_of", args, caller, signers,
                       balance_of(args.owner))

Allowance ==
    Idle /\ \E args \in AllowanceArgs, caller \in Callers, signers \in SignerSets :
                Answer("allowance", args, caller, signers,
                       allowance(args.owner, args.spender))

Next ==
    \/ Approve \/ Transfer \/ Mint \/ Burn
    \/ TotalSupply \/ BalanceOf \/ Allowance
    \/ commitTransaction

Spec == Init /\ [][Next]_vars

\* The same program, with the history of the grants kept.
SpecSpend == InitSpend /\ [][Next]_vars

(***************************************************************************)
(* The event list over a sequence of calls.  In Spec `events` holds the    *)
(* events of the open transaction, which commitTransaction hands out with  *)
(* the receipt.  SpecLog keeps the list as MockVM.getEvents reports it:    *)
(* MockVM.commitTransaction saves the state and leaves the events in the   *)
(* list, so the list holds the events of all calls made so far.  Calls are *)
(* made while the list has fewer than MaxEvents entries.                   *)
(***************************************************************************)
MockVM_commitTransaction ==
    /\ ~Idle
    /\ last' = NoCall
    /\ prev' = Ledger
    /\ UNCHANGED <<supply, balances, allowances, events, history>>

LogApprove == Len(events) < MaxEvents /\ Approve

LogTransfer == Len(events) < MaxEvents /\ Transfer

LogMint == Len(events) < MaxEvents /\ Mint

LogBurn == Len(events) < MaxEvents /\ Burn

LogTotalSupply == Len(events) < MaxEvents /\ TotalSupply

LogBalanceOf == Len(events) < MaxEvents /\ BalanceOf

LogAllowance == Len(events) < MaxEvents /\ Allowance

NextLog ==
    \/ LogApprove \/ LogTransfer \/ LogMint \/ LogBurn
    \/ LogTotalSupply \/ LogBalanceOf \/ LogAllowance
    \/ MockVM_commitTransaction

SpecLog == Init /\ [][NextLog]_vars

(***************************************************************************)
(* Properties.  They are stated on the state a call leaves: `last` is the  *)
(* call (its arguments, the calling contract, the signers, its result),    *)
(* `prev` the ledger before it and the variables the ledger after it.      *)
(***************************************************************************)
RECURSIVE SumOver(_, _)
SumOver(f, S) ==
    IF S = {} THEN 0
    ELSE LET a == CHOOSE x \in S : TRUE
         IN  f[a] + SumOver(f, S \ {a})

SumBalances == SumOver(balances, Accounts)

HasCaller == Len(last.caller) > 0

\* The kinds of failure, by the message of the failed System.require.
AuthorizationDenied == {ERR_APPROVE_AUTH, ERR_TRANSFER_AUTH, ERR_MINT_AUTH}
InsufficientBalance == {ERR_BALANCE}
SupplyOverflow == {ERR_SUPPLY}

\* The allowance record of (owner, spender) in a ledger: whether it is
\* stored, what a query reports, and whether it covers an amount.
Stored(ledger, owner, spender) ==
    AllowanceKey(owner, spender) \in DOMAIN ledger.allowances

AllowanceIn(ledger, owner, spender) ==
    IF Stored(ledger, owner, spender)
    THEN ledger.allowances[AllowanceKey(owner, spender)]
    ELSE 0

StoredCovers(ledger, owner, spender, amount) ==
    /\ Stored(ledger, owner, spender)
    /\ ledger.allowances[AllowanceKey(owner, spender)] >= amount

\* The account and the amount a call asks check_authority about.
AuthAccount ==
    CASE last.op = "transfer" -> last.args.from
      [] last.op = "approve" -> last.args.owner
      [] last.op = "mint" -> CONTRACT_ID

AuthAmount == IF last.op = "transfer" THEN last.args.value ELSE 0

\* The three ways a transfer from last.args.from is authorized.
TransferAuthorized ==
    \/ ~HasCaller /\ last.args.from \in last.signers
    \/ HasCaller /\ last.caller = last.args.from
    \/ HasCaller /\ StoredCovers(prev, last.args.from, last.caller,
                                 last.args.value)

\* C1: in every reachable state the sum of all account balances equals
\* total_supply.
C1_SumOfBalancesIsSupply == SumBalances = total_supply

C1_Witness ==
    /\ last.op = "transfer" /\ last.result = OK
    /\ last.args.value > 0
    /\ last.args.from # last.args.to
    /\ \E a \in Accounts : balances[a] > 0 /\ a # last.args.to

\* C2: in every reachable state total_supply <= MAX_SUPPLY.
C2_SupplyWithinMax == total_supply <= max_supply

C2_Witness ==
    /\ last.op = "mint" /\ last.result = OK
    /\ last.args.value > 0
    /\ prev.supply > 0
    /\ supply = max_supply

\* C3: the balance of an account A decreases only in a successful transfer
\* with from = A in which (i) no contract calls and A is among the signers,
\* or (ii) the calling contract is A, or (iii) the calling contract C had a
\* stored allowance(A, C) >= value before the step.
C3_NoUnrelatedDebit ==
    \A a \in Accounts :
        balances[a] < prev.balances[a] =>
            /\ last.op = "transfer"
            /\ last.result = OK
            /\ last.args.from = a
            /\ \/ ~HasCaller /\ a \in last.signers
               \/ HasCaller /\ last.caller = a
               \/ HasCaller /\ StoredCovers(prev, a, last.caller,
                                            last.args.value)

C3_Witness ==
    \E a \in Accounts :
        /\ balances[a] < prev.balances[a]
        /\ HasCaller
        /\ last.caller # a
        /\ a \in last.signers

\* C4: with no calling contract, transfer(from, to, value) with from among
\* the signers and balance(from) >= value succeeds, whatever allowances are
\* stored for from.
C4_SignedTransferSucceeds ==
    ( /\ last.op = "transfer"
      /\ ~HasCaller
      /\ last.args.from \in last.signers
      /\ prev.balances[last.args.from] >= last.args.value )
    => last.result = OK

C4_Witness ==
    /\ last.op = "transfer"
    /\ ~HasCaller
    /\ last.signers = {last.args.from}
    /\ last.args.value > 0
    /\ last.result = OK
    /\ \E s \in Accounts :
           /\ Stored(prev, last.args.from, s)
           /\ AllowanceIn(prev, last.args.from, s) < last.args.value

\* C5: with no calling contract, a transfer from X whose signers do not
\* include X fails with AuthorizationDenied and changes no balance and no
\* allowance, also when a signer holds a stored allowance from X that covers
\* the value.
C5_UnsignedDirectTransferDenied ==
    ( /\ last.op = "transfer"
      /\ ~HasCaller
      /\ last.args.from \notin last.signers )
    => /\ last.result = ERR_TRANSFER_AUTH
       /\ balances = prev.balances
       /\ allowances = prev.allowances

C5_Witness ==
    /\ last.op = "transfer"
    /\ ~HasCaller
    /\ last.args.from \notin last.signers
    /\ last.args.value > 0
    /\ prev.balances[last.args.from] >= last.args.value
    /\ \E s \in last.signers :
           StoredCovers(prev, last.args.from, s, last.args.value)
    /\ last.result = ERR_TRANSFER_AUTH

\* C6: when a calling contract C is present, differs from the account and no
\* stored allowance(account, C) covers the amount, the operation is denied
\* without any fallback to the signatures, also when the account is among the
\* signers.
C6_NoSignatureFallback ==
    ( /\ last.op \in {"transfer", "approve", "mint"}
      /\ HasCaller
      /\ last.caller # AuthAccount
      /\ ~StoredCovers(prev, AuthAccount, last.caller, AuthAmount) )
    => /\ last.result \in AuthorizationDenied
       /\ Ledger = prev

C6_Witness ==
    /\ last.op = "transfer"
    /\ HasCaller
    /\ last.caller # last.args.from
    /\ ~StoredCovers(prev, last.args.from, last.caller, last.args.value)
    /\ last.args.from \in last.signers
    /\ last.args.value > 0
    /\ prev.balances[last.args.from] >= last.args.value
    /\ last.result = ERR_TRANSFER_AUTH

\* What C7 promises of a transfer of k = last.args.value from A to B through
\* the calling contract C.
C7_Effect ==
    /\ last.result = OK
    /\ allowance(last.args.from, last.caller)
         = AllowanceIn(prev, last.args.from, last.caller) - last.args.value
    /\ balances[last.args.from]
         = prev.balances[last.args.from] - last.args.value
    /\ balances[last.args.to]
         = prev.balances[last.args.to] + last.args.value

C7_Case ==
    /\ last.op = "transfer"
    /\ HasCaller
    /\ last.caller # last.args.from
    /\ StoredCovers(prev, last.args.from, last.caller, last.args.value)
    /\ prev.balances[last.args.from] >= last.args.value

\* C7 as stated: a transfer of k from A to B through calling contract
\* C # A, with stored allowance(A, C) >= k and balance(A) >= k, succeeds and
\* lowers allowance(A, C) and balance(A) by k and raises balance(B) by k.
C7_AsStated == C7_Case => C7_Effect

\* C7 amended: the same for B # A.  (With B = A the transfer succeeds and
\* the allowance is lowered by k, but the balance of A is left as it was.)
C7_AllowanceTransfer ==
    (C7_Case /\ last.args.to # last.args.from) => C7_Effect

C7_Witness ==
    /\ C7_Case
    /\ last.args.to # last.args.from
    /\ last.args.value > 0
    /\ last.result = OK
    /\ last.via = "allowance"

\* C8: a transfer from A through calling contract C # A whose value exceeds
\* the stored allowance(A, C) fails with 'from has not authorized transfer'
\* and leaves all balances and allowance(A, C) as they were, also when
\* balance(A) covers the value.
C8_ExceedingAllowanceDenied ==
    ( /\ last.op = "transfer"
      /\ HasCaller
      /\ last.caller # last.args.from
      /\ last.args.value > AllowanceIn(prev, last.args.from, last.caller) )
    => /\ last.result = ERR_TRANSFER_AUTH
       /\ balances = prev.balances
       /\ allowance(last.args.from, last.caller)
            = AllowanceIn(prev, last.args.from, last.caller)
       /\ Stored(Ledger, last.args.from, last.caller)
            = Stored(prev, last.args.from, last.caller)

C8_Witness ==
    /\ last.op = "transfer"
    /\ HasCaller
    /\ last.caller # last.args.from
    /\ Stored(prev, last.args.from, last.caller)
    /\ AllowanceIn(prev, last.args.from, last.caller) > 0
    /\ last.args.value > AllowanceIn(prev, last.args.from, last.caller)
    /\ prev.balances[last.args.from] >= last.args.value
    /\ last.result = ERR_TRANSFER_AUTH

\* C9: a transfer call that fails, for whatever reason, leaves every
\* allowance entry as it was, allowance(from, calling contract) included.
C9_FailedTransferKeepsAllowances ==
    (last.op = "transfer" /\ last.result # OK)
    => allowances = prev.allowances

C9_Witness ==
    /\ last.op = "transfer"
    /\ last.result = ERR_BALANCE
    /\ last.via = "allowance"
    /\ last.puts = <<"allowances">>
    /\ last.args.value > 0
    /\ HasCaller
    /\ last.caller # last.args.from

\* C10: transfer checks the authority before the balance: an authorized
\* transfer with balance(from) < value fails with InsufficientBalance and
\* leaves the state unchanged; an unauthorized transfer fails with
\* AuthorizationDenied whether or not balance(from) covers the value.
C10_AuthorityBeforeBalance ==
    last.op = "transfer" =>
        /\ ( TransferAuthorized
             /\ prev.balances[last.args.from] < last.args.value )
           => /\ last.result \in InsufficientBalance
              /\ Ledger = prev
              /\ events = << >>
        /\ ~TransferAuthorized
           => /\ last.result = ERR_TRANSFER_AUTH
              /\ Ledger = prev
              /\ events = << >>

C10_Witness ==
    /\ last.op = "transfer"
    /\ ~TransferAuthorized
    /\ prev.balances[last.args.from] < last.args.value
    /\ prev.balances[last.args.from] > 0
    /\ last.result = ERR_TRANSFER_AUTH

C10_WitnessUnderfunded ==
    /\ last.op = "transfer"
    /\ TransferAuthorized
    /\ prev.balances[last.args.from] < last.args.value
    /\ last.result = ERR_BALANCE

\* C11: a successful transfer with from # to lowers balance(from) by exactly
\* value, raises balance(to) by exactly value, and leaves total_supply and
\* the balance of every other account as they were.
C11_TransferMovesValue ==
    ( /\ last.op = "transfer"
      /\ last.result = OK
      /\ last.args.from # last.args.to )
    => /\ balance_of(last.args.from)
            = prev.balances[last.args.from] - last.args.value
       /\ balance_of(last.args.to)
            = prev.balances[last.args.to] + last.args.value
       /\ total_supply = prev.supply
       /\ \A a \in Accounts \ {last.args.from, last.args.to} :
              balance_of(a) = prev.balances[a]

C11_Witness ==
    /\ last.op = "transfer"
    /\ last.result = OK
    /\ last.args.from # last.args.to
    /\ last.args.value > 0
    /\ \E a \in Accounts \ {last.args.from, last.args.to} :
           prev.balances[a] > 0

\* The two ways a mint is authorized: the token contract calls, or no
\* contract calls and the token contract is among the signers.
MintAuthorized ==
    \/ HasCaller /\ last.caller = CONTRACT_ID
    \/ ~HasCaller /\ CONTRACT_ID \in last.signers

\* C12: an authorized mint(to, value) that respects the supply bound raises
\* balance(to) by exactly value and total_supply by exactly value, and leaves
\* every other balance and every allowance as it was.
C12_MintAddsValue ==
    ( /\ last.op = "mint"
      /\ MintAuthorized
      /\ prev.supply + last.args.value <= max_supply )
    => /\ last.result = OK
       /\ balance_of(last.args.to)
            = prev.balances[last.args.to] + last.args.value
       /\ total_supply = prev.supply + last.args.value
       /\ \A a \in Accounts \ {last.args.to} :
              balance_of(a) = prev.balances[a]
       /\ allowances = prev.allowances

C12_Witness ==
    /\ last.op = "mint"
    /\ MintAuthorized
    /\ last.result = OK
    /\ last.args.value > 0
    /\ \E a \in Accounts \ {last.args.to} : prev.balances[a] > 0
    /\ \E o, s \in Accounts : AllowanceIn(prev, o, s) > 0

\* C13: mint succeeds only when the calling contract is the token contract,
\* or no contract calls and the token contract is among the signers; every
\* other mint fails with AuthorizationDenied and leaves balances and supply
\* unchanged, whatever `to` is.
C13_MintOnlyByContract ==
    last.op = "mint" =>
        /\ last.result = OK => MintAuthorized
        /\ ~MintAuthorized
           => /\ last.result \in AuthorizationDenied
              /\ balances = prev.balances
              /\ total_supply = prev.supply

C13_Witness ==
    /\ last.op = "mint"
    /\ HasCaller
    /\ last.caller = last.args.to
    /\ last.caller # CONTRACT_ID
    /\ last.signers = {CONTRACT_ID, last.args.to}
    /\ last.args.value > 0
    /\ prev.supply + last.args.value <= max_supply
    /\ last.result = ERR_MINT_AUTH

\* C14: an authorized mint fails with SupplyOverflow exactly when
\* current_supply > MAX_SUPPLY - value, the difference taken without
\* wraparound (so a value above MAX_SUPPLY fails, and so does the largest
\* u64 with a nonzero supply); it succeeds when current_supply + value =
\* MAX_SUPPLY; a failed mint leaves the state unchanged.
C14_SupplyOverflow ==
    ( /\ last.op = "mint"
      /\ MintAuthorized )
    => /\ last.result \in SupplyOverflow
            <=> prev.supply > max_supply - last.args.value
       /\ last.result \in SupplyOverflow \cup {OK}
       /\ prev.supply + last.args.value = max_supply => last.result = OK
       /\ last.result # OK => Ledger = prev

C14_Witness ==
    /\ last.op = "mint"
    /\ MintAuthorized
    /\ last.args.value = U64_MAX_VALUE
    /\ last.args.value > max_supply
    /\ prev.supply > 0
    /\ last.result = ERR_SUPPLY

C14_WitnessAtMax ==
    /\ last.op = "mint"
    /\ MintAuthorized
    /\ prev.supply > 0
    /\ last.args.value > 0
    /\ prev.supply + last.args.value = max_supply
    /\ last.result = OK

\* C15: burn is inert: a burn(from, value) call by any caller returns
\* success without an authorization check, changes no balance, no allowance
\* and not the supply and emits no event; no 'token.burn' event appears in
\* any execution.
C15_BurnInert ==
    /\ last.op = "burn"
       => /\ last.result = OK
          /\ Ledger = prev
          /\ events = << >>
    /\ \A i \in DOMAIN events : events[i].name # "token.burn"

C15_Witness ==
    /\ last.op = "burn"
    /\ last.result = OK
    /\ HasCaller
    /\ last.caller # CONTRACT_ID
    /\ last.signers = {}
    /\ last.args.value > 0
    /\ prev.balances[last.args.from] >= last.args.value
    /\ \E o, s \in Accounts : Stored(prev, o, s)

\* The two ways an approve of last.args.owner is authorized.
ApproveAuthorized ==
    \/ HasCaller /\ last.caller = last.args.owner
    \/ ~HasCaller /\ last.args.owner \in last.signers

\* C16: an authorized approve(owner, spender, value) sets
\* allowance(owner, spender) to exactly value whatever it was before, and
\* leaves every other (owner, spender) entry, the reversed pair
\* (spender, owner) included, all balances and total_supply unchanged,
\* whatever the balance of the owner is.
C16_ApproveOverwrites ==
    ( /\ last.op = "approve"
      /\ ApproveAuthorized )
    => /\ last.result = OK
       /\ Stored(Ledger, last.args.owner, last.args.spender)
       /\ allowance(last.args.owner, last.args.spender) = last.args.value
       /\ \A o, s \in Accounts :
              <<o, s>> # <<last.args.owner, last.args.spender>>
              => /\ Stored(Ledger, o, s) = Stored(prev, o, s)
                 /\ allowance(o, s) = AllowanceIn(prev, o, s)
       /\ balances = prev.balances
       /\ total_supply = prev.supply

C16_Witness ==
    /\ last.op = "approve"
    /\ ApproveAuthorized
    /\ last.result = OK
    /\ last.args.owner # last.args.spender
    /\ AllowanceIn(prev, last.args.spender, last.args.owner) > 0
    /\ AllowanceIn(prev, last.args.owner, last.args.spender)
         > last.args.value
    /\ last.args.value > prev.balances[last.args.owner]
    /\ AllowanceIn(prev, last.args.spender, last.args.owner)
         # last.args.value

\* C17: approve is idempotent in its effect on the ledger: an authorized
\* approve(o, s, v) leaves allowance(o, s) = v; the same approve made again
\* would write the same allowances; and made on a ledger whose record of
\* (o, s) already is v (as every earlier approve(o, s, v) leaves it) it
\* leaves the whole ledger as it was.  So n >= 1 consecutive authorized
\* approve(o, s, v) calls leave the ledger that the first one left.
C17_ApproveIdempotent ==
    /\ (last.op = "approve" /\ last.result = OK)
       => /\ allowance(last.args.owner, last.args.spender) = last.args.value
          /\ _approve(last.args).allowances = allowances
    /\ ( /\ last.op = "approve"
         /\ ApproveAuthorized
         /\ Stored(prev, last.args.owner, last.args.spender)
         /\ AllowanceIn(prev, last.args.owner, last.args.spender)
              = last.args.value )
       => /\ last.result = OK
          /\ Ledger = prev

C17_Witness ==
    /\ last.op = "approve"
    /\ ApproveAuthorized
    /\ last.result = OK
    /\ last.args.value > 0
    /\ Stored(prev, last.args.owner, last.args.spender)
    /\ AllowanceIn(prev, last.args.owner, last.args.spender)
         = last.args.value
    /\ last.args.owner # last.args.spender
    /\ Stored(prev, last.args.spender, last.args.owner)
    /\ prev.supply > 0

\* C18: a self-transfer is decided by the balance alone: an authorized
\* transfer(a, a, value) succeeds when balance(a) >= value and then leaves
\* balance(a) and total_supply unchanged, and fails with InsufficientBalance
\* when balance(a) < value; from = to is not turned down as such.
C18_SelfTransferByBalance ==
    ( /\ last.op = "transfer"
      /\ last.args.from = last.args.to
      /\ TransferAuthorized )
    => /\ prev.balances[last.args.from] >= last.args.value
          => /\ last.result = OK
             /\ balance_of(last.args.from) = prev.balances[last.args.from]
             /\ balances = prev.balances
             /\ total_supply = prev.supply
       /\ prev.balances[last.args.from] < last.args.value
          => last.result \in InsufficientBalance

C18_Witness ==
    /\ last.op = "transfer"
    /\ last.args.from = last.args.to
    /\ TransferAuthorized
    /\ last.args.value > 0
    /\ prev.balances[last.args.from] > last.args.value
    /\ last.result = OK

C18_WitnessUnderfunded ==
    /\ last.op = "transfer"
    /\ last.args.from = last.args.to
    /\ TransferAuthorized
    /\ prev.balances[last.args.from] > 0
    /\ prev.balances[last.args.from] < last.args.value
    /\ last.result = ERR_BALANCE

\* C19: tokens are not transferred to self: a transfer call whose from and
\* to are the same account is rejected (throws) and leaves the balance of
\* that account unchanged.
C19_SelfTransferRejected ==
    ( /\ last.op = "transfer"
      /\ last.args.from = last.args.to )
    => /\ last.result # OK
       /\ balance_of(last.args.from) = prev.balances[last.args.from]

\* The call of the test 'should not transfer tokens to self' made by the
\* holder of the tokens instead of the token contract: it is carried out.
C19_Witness ==
    /\ last.op = "transfer"
    /\ last.args.from = MOCK_ACCT1
    /\ last.args.to = MOCK_ACCT1
    /\ last.caller = MOCK_ACCT1
    /\ last.args.value > 0
    /\ prev.balances[MOCK_ACCT1] >= last.args.value
    /\ last.result = OK
    /\ Len(events) = 1

\* The entry a successful call puts on the event list.
EventOf(call) ==
    CASE call.op = "mint" ->
             [name |-> "token.mint", data |-> call.args,
              impacted |-> <<call.args.to>>]
      [] call.op = "transfer" ->
             [name |-> "token.transfer", data |-> call.args,
              impacted |-> <<call.args.to, call.args.from>>]
      [] call.op = "approve" ->
             [name |-> "token.approve", data |-> call.args,
              impacted |-> <<call.args.spender, call.args.owner>>]

Emits(call) ==
    call.op \in {"mint", "transfer", "approve"} /\ call.result = OK

\* A call step: the entry point called from the idle state leaves its call.
C20_Step ==
    (Idle /\ last'.op # "none")
    => events' = IF Emits(last')
                 THEN Append(events, EventOf(last'))
                 ELSE events

\* C20: every call extends the event list by exactly one entry at its end
\* when it is a successful mint, transfer or approve and leaves the list as
\* it is when it fails or is a burn; the entry is 'token.mint' with impacted
\* [to], 'token.transfer' with impacted [to, from] or 'token.approve' with
\* impacted [spender, owner], and carries the arguments of the call.  The
\* entries therefore stand in the order of the calls.
C20_EventLog == [][C20_Step]_vars

C20_Witness ==
    /\ Len(events) = 2
    /\ last.op = "transfer"
    /\ last.result = OK
    /\ last.args.value > 0
    /\ last.args.from # last.args.to
    /\ events[1].name = "token.mint"
    /\ events[1].data.to = last.args.from
    /\ events[2] = EventOf(last)

IsQuery == last.op \in {"total_supply", "balance_of", "allowance"}

\* An account is credited by a successful mint or transfer to it; in SpecLog
\* the event list holds every successful call made so far.
Credited(a) ==
    \E i \in DOMAIN events :
        /\ events[i].name \in {"token.mint", "token.transfer"}
        /\ events[i].data.to = a

\* C21: the queries total_supply, balance_of and allowance succeed in every
\* caller context without asking for authority and leave the ledger as it
\* was; they report the stored values, balance_of reports 0 for an account
\* never credited, and allowance reports 0 both for an absent record and for
\* a record stored as 0.
C21_QueriesPure ==
    IsQuery =>
        /\ last.result = OK
        /\ last.via = "none"
        /\ last.puts = << >>
        /\ Ledger = prev
        /\ last.op = "total_supply" => last.value = prev.supply
        /\ last.op = "balance_of"
           => /\ last.value = prev.balances[last.args.owner]
              /\ ~Credited(last.args.owner) => last.value = 0
        /\ last.op = "allowance"
           => /\ last.value
                   = AllowanceIn(prev, last.args.owner, last.args.spender)
              /\ ~Stored(prev, last.args.owner, last.args.spender)
                 => last.value = 0
              /\ ( /\ Stored(prev, last.args.owner, last.args.spender)
                   /\ prev.allowances[AllowanceKey(last.args.owner,
                                                   last.args.spender)] = 0 )
                 => last.value = 0

C21_Witness ==
    /\ last.op = "allowance"
    /\ HasCaller
    /\ last.caller \notin {last.args.owner, last.args.spender}
    /\ last.signers = {}
    /\ Stored(prev, last.args.owner, last.args.spender)
    /\ last.value = 0

C21_WitnessAbsent ==
    /\ last.op = "allowance"
    /\ ~Stored(prev, last.args.owner, last.args.spender)
    /\ AllowanceIn(prev, last.args.spender, last.args.owner) > 0
    /\ last.value = 0

C21_WitnessNeverCredited ==
    /\ last.op = "balance_of"
    /\ ~Credited(last.args.owner)
    /\ \E a \in Accounts : Credited(a) /\ balances[a] > 0
    /\ last.signers = {}
    /\ last.value = 0

C21_WitnessSupply ==
    /\ last.op = "total_supply"
    /\ last.value > 0
    /\ HasCaller
    /\ last.caller # CONTRACT_ID

\* C22: allowances are never double-spent: for every owner A and calling
\* contract C # A, the total value of the successful transfers from A made
\* by C since the last successful approve(A, C, v) (none before the first)
\* never exceeds v.
C22_NoDoubleSpend ==
    \A key \in DOMAIN history.grants :
        history.grants[key].spent <= history.grants[key].granted

C22_Witness ==
    /\ last.op = "transfer"
    /\ last.result = OK
    /\ HasCaller
    /\ last.caller # last.args.from
    /\ last.args.value > 0
    /\ GrantOf(AllowanceKey(last.args.from, last.caller)).spent
         > last.args.value
    /\ GrantOf(AllowanceKey(last.args.from, last.caller)).spent
         = GrantOf(AllowanceKey(last.args.from, last.caller)).granted

\* C23: approve and mint are never authorized by an allowance and never
\* consume one: a calling contract C that holds a stored allowance from the
\* account (the owner for approve, the token contract for mint) but is not
\* that account is denied, and a successful approve or mint is not
\* authorized through an allowance and lowers no allowance entry (approve
\* only overwrites the entry it is about).
C23_NoAllowanceForApproveAndMint ==
    last.op \in {"approve", "mint"} =>
        /\ ( /\ HasCaller
             /\ last.caller # AuthAccount
             /\ Stored(prev, AuthAccount, last.caller) )
           => /\ last.result \in AuthorizationDenied
              /\ Ledger = prev
        /\ last.result = OK
           => /\ last.via \in {"caller", "signer"}
              /\ \A o, s \in Accounts :
                     \/ /\ last.op = "approve"
                        /\ <<o, s>> = <<last.args.owner, last.args.spender>>
                     \/ /\ Stored(Ledger, o, s) = Stored(prev, o, s)
                        /\ allowance(o, s) = AllowanceIn(prev, o, s)

C23_Witness ==
    /\ last.op = "approve"
    /\ HasCaller
    /\ last.caller # last.args.owner
    /\ AllowanceIn(prev, last.args.owner, last.caller) > 0
    /\ last.args.owner \in last.signers
    /\ last.result = ERR_APPROVE_AUTH

C23_WitnessMint ==
    /\ last.op = "mint"
    /\ HasCaller
    /\ last.caller # CONTRACT_ID
    /\ AllowanceIn(prev, CONTRACT_ID, last.caller) > 0
    /\ prev.supply + last.args.value <= max_supply
    /\ last.args.value > 0
    /\ last.result = ERR_MINT_AUTH

C23_WitnessSuccess ==
    /\ last.op = "mint"
    /\ last.result = OK
    /\ last.caller = CONTRACT_ID
    /\ last.args.value > 0
    /\ AllowanceIn(prev, CONTRACT_ID, CONTRACT_ID) > 0
    /\ allowance(CONTRACT_ID, CONTRACT_ID)
         = AllowanceIn(prev, CONTRACT_ID, CONTRACT_ID)

\* C24: on the calling-contract path the allowance is tried before the
\* self-identity check: a transfer whose calling contract is the account
\* itself is authorized in any case; it spends allowance(account, account)
\* by the amount when such a record is stored and covers the amount, and
\* otherwise is authorized by self-identity with that record left as it was.
C24_AllowanceBeforeSelf ==
    ( /\ last.op = "transfer"
      /\ HasCaller
      /\ last.caller = last.args.from )
    => /\ last.result \in {OK} \cup InsufficientBalance
       /\ StoredCovers(prev, last.args.from, last.args.from, last.args.value)
          => /\ last.via = "allowance"
             /\ last.result = OK
                => allowance(last.args.from, last.args.from)
                     = AllowanceIn(prev, last.args.from, last.args.from)
                         - last.args.value
       /\ ~StoredCovers(prev, last.args.from, last.args.from, last.args.value)
          => /\ last.via = "caller"
             /\ Stored(Ledger, last.args.from, last.args.from)
                  = Stored(prev, last.args.from, last.args.from)
             /\ allowance(last.args.from, last.args.from)
                  = AllowanceIn(prev, last.args.from, last.args.from)

C24_Witness ==
    /\ last.op = "transfer"
    /\ HasCaller
    /\ last.caller = last.args.from
    /\ last.args.to # last.args.from
    /\ last.args.value > 0
    /\ StoredCovers(prev, last.args.from, last.args.from, last.args.value)
    /\ last.result = OK
    /\ allowance(last.args.from, last.args.from)
         < AllowanceIn(prev, last.args.from, last.args.from)

C24_WitnessSelfIdentity ==
    /\ last.op = "transfer"
    /\ HasCaller
    /\ last.caller = last.args.from
    /\ last.args.to # last.args.from
    /\ AllowanceIn(prev, last.args.from, last.args.from) > 0
    /\ last.args.value > AllowanceIn(prev, last.args.from, last.args.from)
    /\ last.result = OK
    /\ last.via = "caller"

\* C25: an absent allowance and a stored allowance of 0 are both reported as
\* 0 but authorize differently: a zero-value transfer from A through calling
\* contract C # A is denied when no record of (A, C) is stored and succeeds
\* when a record is stored, also with value 0; records are never deleted, so
\* every key that was approved once stays stored, and C can go on making
\* zero-value transfers from A after the allowance is spent down to 0.
C25_AbsentVersusZero ==
    /\ ( /\ last.op = "transfer"
         /\ HasCaller
         /\ last.caller # last.args.from
         /\ last.args.value = 0 )
       => /\ ~Stored(prev, last.args.from, last.caller)
             => /\ last.result = ERR_TRANSFER_AUTH
                /\ AllowanceIn(prev, last.args.from, last.caller) = 0
          /\ Stored(prev, last.args.from, last.caller)
             => /\ last.result = OK
                /\ last.via = "allowance"
    /\ \A o, s \in Accounts : Stored(prev, o, s) => Stored(Ledger, o, s)
    /\ \A key \in DOMAIN history.grants : key \in DOMAIN allowances

C25_Witness ==
    /\ last.op = "transfer"
    /\ HasCaller
    /\ last.caller # last.args.from
    /\ last.args.value = 0
    /\ Stored(prev, last.args.from, last.caller)
    /\ AllowanceIn(prev, last.args.from, last.caller) = 0
    /\ GrantOf(AllowanceKey(last.args.from, last.caller)).granted > 0
    /\ GrantOf(AllowanceKey(last.args.from, last.caller)).spent
         = GrantOf(AllowanceKey(last.args.from, last.caller)).granted
    /\ last.result = OK

C25_WitnessAbsent ==
    /\ last.op = "transfer"
    /\ HasCaller
    /\ last.caller # last.args.from
    /\ last.args.value = 0
    /\ ~Stored(prev, last.args.from, last.caller)
    /\ Stored(prev, last.caller, last.args.from)
    /\ last.args.from \in last.signers
    /\ last.result = ERR_TRANSFER_AUTH

\* The record of (o, s) is the same in the ledger before and after the call.
SameRecord(o, s) ==
    /\ Stored(Ledger, o, s) = Stored(prev, o, s)
    /\ allowance(o, s) = AllowanceIn(prev, o, s)

ApprovedPair(o, s) ==
    /\ last.op = "approve"
    /\ last.result = OK
    /\ <<o, s>> = <<last.args.owner, last.args.spender>>

\* C26: an allowance record is lowered only by the authorization of a
\* successful transfer made by a calling contract, which lowers the record
\* of (from, calling contract) and no other; a successful transfer changes
\* at most that single record, a transfer authorized by signature changes
\* none, and no operation other than approve (which overwrites the record it
\* names) ever raises or creates a record.
C26_AllowanceWriters ==
    /\ \A o, s \in Accounts :
           (allowance(o, s) < AllowanceIn(prev, o, s) /\ ~ApprovedPair(o, s))
           => /\ last.op = "transfer"
              /\ last.result = OK
              /\ HasCaller
              /\ last.via = "allowance"
              /\ <<o, s>> = <<last.args.from, last.caller>>
              /\ allowance(o, s) = AllowanceIn(prev, o, s) - last.args.value
    /\ (last.op = "transfer" /\ last.result = OK)
       => /\ \A o, s \in Accounts :
                 (HasCaller /\ <<o, s>> = <<last.args.from, last.caller>>)
                 \/ SameRecord(o, s)
          /\ ~HasCaller => allowances = prev.allowances
    /\ \A o, s \in Accounts :
           ( \/ allowance(o, s) > AllowanceIn(prev, o, s)
             \/ Stored(Ledger, o, s) /\ ~Stored(prev, o, s) )
           => ApprovedPair(o, s)

C26_Witness ==
    /\ last.op = "transfer"
    /\ last.result = OK
    /\ HasCaller
    /\ last.caller # last.args.from
    /\ last.args.value > 0
    /\ allowance(last.args.from, last.caller)
         < AllowanceIn(prev, last.args.from, last.caller)
    /\ AllowanceIn(prev, last.caller, last.args.from) > 0
    /\ SameRecord(last.caller, last.args.from)

C26_WitnessSigned ==
    /\ last.op = "transfer"
    /\ last.result = OK
    /\ ~HasCaller
    /\ last.args.value > 0
    /\ \E s \in last.signers :
           /\ s # last.args.from
           /\ AllowanceIn(prev, last.args.from, s) >= last.args.value
           /\ SameRecord(last.args.from, s)

\* What C27 asks of every step.
C27_Step ==
    /\ supply' >= supply
    /\ supply' # supply => (last'.op = "mint" /\ last'.result = OK)

\* C27: total_supply never decreases and is changed only by a successful
\* mint: transfer, approve, burn, the queries and every failed call leave it
\* as it was.
C27_SupplyMonotonic == [][C27_Step]_vars

C27_Witness ==
    /\ last.op = "mint"
    /\ last.result = OK
    /\ prev.supply > 0
    /\ supply > prev.supply

C27_WitnessBurn ==
    /\ last.op = "burn"
    /\ last.args.value > 0
    /\ prev.balances[last.args.from] >= last.args.value
    /\ last.caller = CONTRACT_ID
    /\ supply = prev.supply
    /\ supply = max_supply

IsMutation == last.op \in {"approve", "transfer", "mint", "burn"}

\* C28: the only storage write issued within a call before a later check
\* fails is the allowance write of an allowance-authorized transfer whose
\* balance check then fails; a failed mint, a failed approve and a failed
\* transfer authorized by signature or by self-identity have issued no
\* write, so only in that one case the unchanged state after the failure is
\* owed to the rollback of the host.
C28_WritesBeforeFailure ==
    (IsMutation /\ last.result # OK) =>
        /\ Ledger = prev
        /\ last.puts # << >>
           => /\ last.op = "transfer"
              /\ last.result = ERR_BALANCE
              /\ last.via = "allowance"
              /\ last.puts = <<"allowances">>
              /\ HasCaller
              /\ StoredCovers(prev, last.args.from, last.caller,
                              last.args.value)
        /\ ( \/ last.op \in {"mint", "approve"}
             \/ last.via \in {"signer", "caller", "none"} )
           => last.puts = << >>
        /\ (last.op = "transfer" /\ last.result = ERR_BALANCE
            /\ last.via = "allowance")
           => last.puts = <<"allowances">>

C28_Witness ==
    /\ last.op = "transfer"
    /\ last.result = ERR_BALANCE
    /\ last.via = "allowance"
    /\ last.puts = <<"allowances">>
    /\ last.caller # last.args.from
    /\ prev.balances[last.args.from] > 0
    /\ AllowanceIn(prev, last.args.from, last.caller) > last.args.value
    /\ allowance(last.args.from, last.caller)
         = AllowanceIn(prev, last.args.from, last.caller)

C28_WitnessNoWrite ==
    /\ last.op = "transfer"
    /\ last.result = ERR_BALANCE
    /\ last.via = "caller"
    /\ Stored(prev, last.args.from, last.args.from)
    /\ last.puts = << >>

\* C29: no unsigned 64-bit arithmetic wraps: in every reachable state every
\* balance is <= total_supply <= MAX_SUPPLY <= the largest u64, so the
\* additions that credit `to` and raise the supply stay below 2^64, and
\* every subtraction (debit of `from`, spending of an allowance) is made
\* from a value at least as large.
C29_NoWrap ==
    /\ \A a \in Accounts : balance_of(a) <= total_supply
    /\ total_supply <= max_supply
    /\ max_supply <= U64_MAX_VALUE
    /\ (last.op = "mint" /\ last.result = OK)
       => /\ prev.balances[last.args.to] + last.args.value <= U64_MAX_VALUE
          /\ prev.supply + last.args.value <= U64_MAX_VALUE
          /\ max_supply - last.args.value >= 0
    /\ (last.op = "transfer" /\ last.result = OK)
       => /\ prev.balances[last.args.from] - last.args.value >= 0
          /\ last.args.to # last.args.from
             => prev.balances[last.args.to] + last.args.value
                  <= U64_MAX_VALUE
    /\ (last.op = "transfer" /\ last.via = "allowance")
       => AllowanceIn(prev, last.args.from, last.caller) - last.args.value
            >= 0

C29_Witness ==
    /\ last.op = "transfer"
    /\ last.result = OK
    /\ last.via = "allowance"
    /\ last.args.to # last.args.from
    /\ last.args.value > 0
    /\ prev.balances[last.args.to] > 0
    /\ balance_of(last.args.to) = max_supply
    /\ allowance(last.args.from, last.caller) = 0
    /\ balance_of(last.args.from) = 0

====
